---- MODULE Spec2Model ----
(***************************************************************************)
(* Model of the Pin tracer of Triton (src/tracer/pin/main.cpp): the        *)
(* analysis trigger, the unlock check made at instrumentation time, the    *)
(* analysis callbacks inserted around every instrumented instruction and   *)
(* the snapshot engine they feed.                                          *)
(*                                                                         *)
(* Guest threads execute the instructions of a small guest program.  An    *)
(* instruction is first compiled by Pin (TRACE_Instrumentation, run with   *)
(* Pin's client lock held, as Pin does for every instrumentation           *)
(* callback), and then executed: the analysis calls inserted for it run in *)
(* insertion order around the instruction's own effect.  Every read of     *)
(* shared state made outside PIN_LockClient is a step of its own, so other *)
(* threads interleave with it.                                             *)
(***************************************************************************)
EXTENDS Integers, Sequences, FiniteSets, TLC

(***************************************************************************)
(* Bounds of the model.                                                    *)
(***************************************************************************)
NThreads == 2          \* guest threads
MaxByte  == 2          \* memory bytes range over 0..MaxByte

Thread == 1..NThreads
Byte   == 0..MaxByte
Cell   == {1, 2}       \* guest memory addresses used as operands

\* options::targetThreadId while no thread is analysed
Unset == -1

\* options::startAnalysisFromSymbol while no symbol is configured
nullptr == "nullptr"

(***************************************************************************)
(* The guest program: what Pin's inspection API answers for each           *)
(* instruction address.  0 stands for "no such memory operand".            *)
(*   1  mov  r, r        first instruction of routine f (image app)        *)
(*   2  ret              last instruction of routine f, pops from c2       *)
(*   3  add  [c1], r     routine g: reads and writes c1                    *)
(*   4  push [c1]        routine g: reads c1, writes the stack cell c2;    *)
(*                       its memory operand 0 is the one it reads          *)
(*   5  cmps [c1], [c2]  routine h (image lib): two memory reads           *)
(*   6  syscall          routine h (image lib)                             *)
(***************************************************************************)
Program ==
  << [rtn |-> "f", img |-> "app", read1 |-> 0, read2 |-> 0, write |-> 0, wsize |-> 0,
      opCount |-> 2, memOp0Written |-> FALSE, syscall |-> FALSE, ret |-> FALSE],
     [rtn |-> "f", img |-> "app", read1 |-> 2, read2 |-> 0, write |-> 0, wsize |-> 0,
      opCount |-> 2, memOp0Written |-> FALSE, syscall |-> FALSE, ret |-> TRUE],
     [rtn |-> "g", img |-> "app", read1 |-> 1, read2 |-> 0, write |-> 1, wsize |-> 1,
      opCount |-> 3, memOp0Written |-> TRUE,  syscall |-> FALSE, ret |-> FALSE],
     [rtn |-> "g", img |-> "app", read1 |-> 1, read2 |-> 0, write |-> 2, wsize |-> 1,
      opCount |-> 3, memOp0Written |-> FALSE, syscall |-> FALSE, ret |-> FALSE],
     [rtn |-> "h", img |-> "lib", read1 |-> 1, read2 |-> 2, write |-> 0, wsize |-> 0,
      opCount |-> 4, memOp0Written |-> FALSE, syscall |-> FALSE, ret |-> FALSE],
     [rtn |-> "h", img |-> "lib", read1 |-> 0, read2 |-> 0, write |-> 0, wsize |-> 0,
      opCount |-> 2, memOp0Written |-> FALSE, syscall |-> TRUE,  ret |-> FALSE] >>

Addr  == 1..Len(Program)
Image == {Program[a].img : a \in Addr}

\* IMG_Name: the path of an image, as its characters
IMG_Name(img) == IF img = "app" THEN <<"a", "p", "p">> ELSE <<"l", "i", "b">>

\* the addresses an image owns
ImgAddrs(img) == {a \in Addr : Program[a].img = img}

\* IMG_LowAddress: addresses of an image lie above its base
IMG_LowAddress(img) == (CHOOSE a \in ImgAddrs(img) : \A b \in ImgAddrs(img) : a <= b) - 1

\* IMG_Entry: the entry address of an image
IMG_Entry(img) == IMG_LowAddress(img) + 1

\* RTN_FindNameByAddress
RTN_FindNameByAddress(a) == Program[a].rtn

\* getInsOffset: the address relative to the base of the image owning it
getInsOffset(a) == a - IMG_LowAddress(Program[a].img)

\* getImageName: the path of the image owning the address
getImageName(a) == IMG_Name(Program[a].img)

\* RTN_Valid(RTN_FindByName(img, name))
RTN_FindByName(img, name) == {a \in ImgAddrs(img) : Program[a].rtn = name}

\* the first instruction of the routine owning a, where IPOINT_BEFORE calls of
\* the routine run
RtnHead(a) == \A b \in Addr :
                 (Program[b].rtn = Program[a].rtn /\ Program[b].img = Program[a].img) => a <= b

(***************************************************************************)
(* strstr(haystack, needle) != NULL                                        *)
(***************************************************************************)
strstr(hay, needle) ==
  \E i \in 0..(Len(hay) - Len(needle)) :
     \A j \in 1..Len(needle) : hay[i + j] = needle[j]

(***************************************************************************)
(* State of the pintool.                                                   *)
(***************************************************************************)
VARIABLES
  Trigger,                  \* analysisTrigger: the state of the Trigger
  targetThreadId,           \* options::targetThreadId
  startAnalysisFromSymbol,  \* options::startAnalysisFromSymbol
  startAnalysisFromAddr,    \* options::startAnalysisFromAddr
  startAnalysisFromOffset,  \* options::startAnalysisFromOffset
  startAnalysisFromEntry,   \* options::startAnalysisFromEntry
  imageBlacklist,           \* options::imageBlacklist
  imageWhitelist,           \* options::imageWhitelist
  loaded,                   \* images Pin has loaded (IMG_Instrumentation ran)
  bracketed,                \* images whose routine got the toggleWrapper calls
  cache,                    \* Pin's code cache: how each address was compiled
  tritonInst,               \* the Instruction object allocated per compiled address
  mem,                      \* guest memory
  snapshot,                 \* the Snapshot engine
  mustBeExecuted,           \* context::mustBeExecuted
  lastContext,              \* context::lastContext
  lock,                     \* holder of Pin's client lock, 0 when free
  pc,                       \* where each thread stands
  cur,                      \* the address each thread is compiling or executing
  ret,                      \* the value checkUnlockAnalysis returned to the thread
  \* the inputs of a run, fixed from the start
  script,                   \* what the hooks of the user's script ask for
  guest,                    \* the addresses each guest thread executes
  images,                   \* the images the process loads
  exited,                   \* the process has called exit
  \* history variables, read by the properties only
  matchPresented,           \* a matching address was given to checkUnlockAnalysis
  hookFired,                \* a before or after hook was invoked
  snapMem,                  \* guest memory when the snapshot was taken
  unrec,                    \* cells written since then without a recorded capture
  written,                  \* how often each cell was written since then (2: more)
  open,                     \* a snapshot was taken and not disabled since
  capt,                     \* what callbackSnapshot did in the thread's execution
  cap,                      \* captures saveMemoryAccess made in the execution
  log,                      \* hooks and effects of the thread's execution, in order
  events                    \* what image loads and signals did, in order

optVars   == <<startAnalysisFromSymbol, startAnalysisFromAddr, startAnalysisFromOffset,
               startAnalysisFromEntry, imageBlacklist, imageWhitelist>>
imgVars   == <<loaded, bracketed>>
snapVars  == <<snapshot, snapMem, unrec, written, open>>
ctxVars   == <<mustBeExecuted, lastContext>>
inVars    == <<script, guest, images>>
vars == <<Trigger, targetThreadId, optVars, imgVars, cache, tritonInst, mem, snapVars,
          ctxVars, lock, pc, cur, ret, inVars, exited, events, matchPresented, hookFired, capt, cap, log>>

\* an Instruction just allocated or reset: no address, no thread, operands not
\* trusted, no memory access attached
NoAccess == [c \in {} |-> 0]
FreshInst == [address |-> 0, tid |-> 0, trusted |-> FALSE, ma |-> NoAccess]

\* the start conditions and image lists a script can configure before the run
SymbolChoices == {nullptr, "f"}
AddrChoices   == {{}, {4}}
OffsetChoices == {{}, {2}}
ListChoices   == { [black |-> {}, white |-> {}],
                   [black |-> {<<"l", "i">>}, white |-> {}],
                   [black |-> {<<"p">>}, white |-> {<<"p", "p">>}] }

\* what a user hook may ask for through the bindings
HookEffects == {"none", "takeSnapshot", "restoreSnapshot", "disableSnapshot",
                "setCurrentRegisterValue"}

\* the state the pintool starts in, whatever the script configures
Boot ==
  /\ Trigger = FALSE
  /\ targetThreadId = Unset
  /\ loaded = {}
  /\ bracketed = {}
  /\ cache = [a \in Addr |-> "none"]
  /\ tritonInst = [a \in Addr |-> FreshInst]
  /\ mem = [c \in Cell |-> 0]
  /\ snapshot = [locked |-> TRUE, mustBeRestore |-> FALSE, memory |-> NoAccess]
  /\ mustBeExecuted = FALSE
  /\ lastContext = 0
  /\ lock = 0
  /\ pc = [t \in Thread |-> "idle"]
  /\ cur = [t \in Thread |-> 0]
  /\ ret = [t \in Thread |-> FALSE]
  /\ matchPresented = FALSE
  /\ hookFired = FALSE
  /\ snapMem = mem
  /\ unrec = {}
  /\ written = [c \in Cell |-> 0]
  /\ open = FALSE
  /\ capt = [t \in Thread |-> "no"]
  /\ cap = [t \in Thread |-> <<>>]
  /\ log = [t \in Thread |-> <<>>]
  /\ exited = FALSE
  /\ events = <<>>

\* every start condition and image list the script can configure
AnyOptions ==
  /\ startAnalysisFromSymbol \in SymbolChoices
  /\ startAnalysisFromAddr \in AddrChoices
  /\ startAnalysisFromOffset \in OffsetChoices
  /\ startAnalysisFromEntry \in BOOLEAN
  /\ \E l \in ListChoices : imageBlacklist = l.black /\ imageWhitelist = l.white

Init ==
  /\ Boot
  /\ AnyOptions
  /\ script = HookEffects
  /\ guest = [t \in Thread |-> Addr]
  /\ images = Image

(***************************************************************************)
(* Trigger::update, as toggleWrapper calls it under PIN_LockClient: the    *)
(* new state of the Trigger.                                               *)
(***************************************************************************)
toggleWrapper(flag) == flag

(***************************************************************************)
(* IMG_Instrumentation: Pin loads an image.  The from-entry request turns  *)
(* into an entry of the address set, the routine named by the configured   *)
(* symbol gets toggleWrapper(true) at its entry and toggleWrapper(false)   *)
(* at its exit, and callbackImageLoad runs the imageLoad hook with the     *)
(* image's path, base and size; the hook asks for nothing.                 *)
(***************************************************************************)
callbackImageLoad(img) == << <<"imageLoad", img, IMG_LowAddress(img)>> >>

\* IMG_Instrumentation with line 447 left out: the from-entry request is not cleared
IMG_Instrumentation_KeepRequest(img) ==
  /\ img \in images \ loaded
  /\ lock = 0
  /\ ~exited
  /\ loaded' = loaded \cup {img}
  /\ IF startAnalysisFromEntry
       THEN /\ startAnalysisFromEntry' = startAnalysisFromEntry
            /\ startAnalysisFromAddr' = startAnalysisFromAddr \cup {IMG_Entry(img)}
       ELSE UNCHANGED <<startAnalysisFromEntry, startAnalysisFromAddr>>
  /\ events' = events
                \o (IF startAnalysisFromEntry THEN << <<"entry", img, IMG_Entry(img)>> >>
                                              ELSE <<>>)
                \o callbackImageLoad(img)
  /\ bracketed' = IF /\ startAnalysisFromSymbol # nullptr
                     /\ RTN_FindByName(img, startAnalysisFromSymbol) # {}
                    THEN bracketed \cup {img}
                    ELSE bracketed
  /\ UNCHANGED <<Trigger, targetThreadId, startAnalysisFromSymbol, startAnalysisFromOffset,
                 imageBlacklist, imageWhitelist, cache, tritonInst, mem, snapVars, ctxVars,
                 lock, pc, cur, ret, inVars, exited, matchPresented, hookFired, capt, cap,
                 log>>

IMG_Instrumentation(img) ==
  /\ img \in images \ loaded
  /\ lock = 0
  /\ ~exited
  /\ loaded' = loaded \cup {img}
  /\ IF startAnalysisFromEntry
       THEN /\ startAnalysisFromEntry' = FALSE
            /\ startAnalysisFromAddr' = startAnalysisFromAddr \cup {IMG_Entry(img)}
       ELSE UNCHANGED <<startAnalysisFromEntry, startAnalysisFromAddr>>
  /\ events' = events
                \o (IF startAnalysisFromEntry THEN << <<"entry", img, IMG_Entry(img)>> >>
                                              ELSE <<>>)
                \o callbackImageLoad(img)
  /\ bracketed' = IF /\ startAnalysisFromSymbol # nullptr
                     /\ RTN_FindByName(img, startAnalysisFromSymbol) # {}
                    THEN bracketed \cup {img}
                    ELSE bracketed
  /\ UNCHANGED <<Trigger, targetThreadId, startAnalysisFromSymbol, startAnalysisFromOffset,
                 imageBlacklist, imageWhitelist, cache, tritonInst, mem, snapVars, ctxVars,
                 lock, pc, cur, ret, inVars, exited, matchPresented, hookFired, capt, cap,
                 log>>

(***************************************************************************)
(* checkUnlockAnalysis, called by thread t on address a: the values it     *)
(* leaves in targetThreadId and the Trigger, and the value it returns.     *)
(***************************************************************************)
SymbolMatch(a) == RTN_FindNameByAddress(a) = startAnalysisFromSymbol
\* the membership test turned round
AddrMatch_Negated(a) == a \notin startAnalysisFromAddr
AddrMatch(a)   == a \in startAnalysisFromAddr
OffsetMatch(a) == getInsOffset(a) \in startAnalysisFromOffset

Unlocked(t) == [tid |-> t, trig |-> toggleWrapper(TRUE), ret |-> TRUE]
StillLocked == [tid |-> targetThreadId, trig |-> Trigger, ret |-> FALSE]

\* the check without its first test, of the target thread being set
checkUnlockAnalysis_NoGuard(t, a) ==
  IF startAnalysisFromSymbol # nullptr
    THEN (IF SymbolMatch(a) THEN Unlocked(t) ELSE StillLocked)
  ELSE IF AddrMatch(a) THEN Unlocked(t)
  ELSE IF OffsetMatch(a) THEN Unlocked(t)
  ELSE StillLocked

\* the check whose first test only stops the thread that is the target already
checkUnlockAnalysis_OwnGuard(t, a) ==
  IF targetThreadId = t THEN StillLocked
  ELSE checkUnlockAnalysis_NoGuard(t, a)

checkUnlockAnalysis(t, a) ==
  IF targetThreadId # Unset THEN StillLocked
  ELSE IF startAnalysisFromSymbol # nullptr
         THEN (IF SymbolMatch(a) THEN Unlocked(t) ELSE StillLocked)
       ELSE IF AddrMatch(a) THEN Unlocked(t)
       ELSE IF OffsetMatch(a) THEN Unlocked(t)
       ELSE StillLocked

\* the address satisfies one of the configured start conditions
SatisfiesRange(a) ==
  \/ startAnalysisFromSymbol # nullptr /\ RTN_FindNameByAddress(a) = startAnalysisFromSymbol
  \/ a \in startAnalysisFromAddr
  \/ getInsOffset(a) \in startAnalysisFromOffset

\* a blacklist that is never looked at
instructionBlacklisted_Never(a) == FALSE

\* instructionBlacklisted / instructionWhitelisted
instructionBlacklisted(a) ==
  \E b \in imageBlacklist : strstr(getImageName(a), b)

instructionWhitelisted(a) ==
  \/ imageWhitelist = {}
  \/ \E w \in imageWhitelist : strstr(getImageName(a), w)

(***************************************************************************)
(* TRACE_Instrumentation, one instruction of the trace being compiled.     *)
(* Pin calls it in the thread that is about to execute the trace, with its *)
(* client lock held.  First the unlock check ...                           *)
(***************************************************************************)
TRACE_Check(t, a) ==
  /\ pc[t] = "idle"
  /\ a \in guest[t]
  /\ lock = 0
  /\ cache[a] = "none"
  /\ Program[a].img \in loaded
  /\ LET r == checkUnlockAnalysis(t, a) IN
       /\ targetThreadId' = r.tid
       /\ Trigger' = r.trig
       /\ ret' = [ret EXCEPT ![t] = r.ret]
  /\ matchPresented' = (matchPresented \/ SatisfiesRange(a))
  /\ lock' = t
  /\ pc' = [pc EXCEPT ![t] = "jit"]
  /\ cur' = [cur EXCEPT ![t] = a]
  /\ UNCHANGED <<optVars, imgVars, cache, tritonInst, mem, snapVars, ctxVars, inVars, exited, events,
                 hookFired, capt, cap, log>>

(***************************************************************************)
(* ... then, when the Trigger is on and the image passes the lists, a new  *)
(* Instruction is allocated and the analysis calls are inserted.           *)
(***************************************************************************)
Instrumented(a) ==
  /\ Trigger
  /\ ~(instructionBlacklisted(a) \/ ~instructionWhitelisted(a))

TRACE_Insert(t) ==
  /\ pc[t] = "jit"
  /\ LET a == cur[t] IN
       /\ cache' = [cache EXCEPT ![a] = IF Instrumented(a) THEN "inst" ELSE "plain"]
       /\ tritonInst' = [tritonInst EXCEPT ![a] = FreshInst]
  /\ lock' = 0
  /\ pc' = [pc EXCEPT ![t] = "idle"]
  /\ cur' = [cur EXCEPT ![t] = 0]
  /\ UNCHANGED <<Trigger, targetThreadId, optVars, imgVars, mem, snapVars, ctxVars, ret,
                 inVars, exited, events, matchPresented, hookFired, capt, cap, log>>

(***************************************************************************)
(* The analysis calls of an instruction, in the order they run.  Calls at  *)
(* the same point run in the order of their insertion: the routine calls   *)
(* inserted at image load, then, as TRACE_Instrumentation inserts them,    *)
(* saveMemoryAccess for the first read, the second read and the write,     *)
(* callbackBefore, (callbackAfter, after the instruction) and              *)
(* callbackSnapshot.  The system call callbacks of Pin surround the        *)
(* system call itself.                                                     *)
(***************************************************************************)
\* the call for the write inserted before the calls for the reads
Captures_WriteFirst(a) ==
  (IF Program[a].write # 0 THEN << [kind |-> "W", addr |-> Program[a].write] >> ELSE <<>>)
  \o (IF Program[a].read1 # 0 THEN << [kind |-> "R1", addr |-> Program[a].read1] >> ELSE <<>>)
  \o (IF Program[a].read2 # 0 THEN << [kind |-> "R2", addr |-> Program[a].read2] >> ELSE <<>>)

Captures(a) ==
  (IF Program[a].read1 # 0 THEN << [kind |-> "R1", addr |-> Program[a].read1] >> ELSE <<>>)
  \o (IF Program[a].read2 # 0 THEN << [kind |-> "R2", addr |-> Program[a].read2] >> ELSE <<>>)
  \o (IF Program[a].write # 0 THEN << [kind |-> "W", addr |-> Program[a].write] >> ELSE <<>>)

Order == << "toggle", "sma", "cbB", "cs", "sysE", "effect", "sysX", "cbA", "fin" >>

\* the bytes the instruction writes
Written(a) == {c \in Cell : Program[a].write # 0 /\ c >= Program[a].write
                             /\ c < Program[a].write + Program[a].wsize}

\* whether the call was inserted for the instruction
Present(a, site) ==
  CASE site = "toggle" -> /\ Program[a].img \in bracketed
                          /\ Program[a].rtn = startAnalysisFromSymbol
                          /\ (RtnHead(a) \/ Program[a].ret)
    [] site = "sma"    -> cache[a] = "inst" /\ Captures(a) # <<>>
    [] site = "cbB"    -> cache[a] = "inst"
    [] site = "cs"     -> /\ cache[a] = "inst"
                          /\ Program[a].opCount > 1
                          /\ Program[a].memOp0Written
    [] site = "sysE"   -> Program[a].syscall
    [] site = "effect" -> TRUE
    [] site = "sysX"   -> Program[a].syscall
    [] site = "cbA"    -> cache[a] = "inst" /\ ~Program[a].syscall
    [] site = "fin"    -> TRUE

IndexOf(site) == CHOOSE i \in 1..Len(Order) : Order[i] = site

SiteAfter(a, i) ==
  Order[CHOOSE j \in (i + 1)..Len(Order) :
          /\ Present(a, Order[j])
          /\ \A k \in (i + 1)..(j - 1) : ~Present(a, Order[k])]

NextSite(a, site) == SiteAfter(a, IndexOf(site))
FirstSite(a) == SiteAfter(a, 0)

\* the thread passes on from a call to the next one
Goto(t, site) == pc' = [pc EXCEPT ![t] = site]

(***************************************************************************)
(* A thread starts executing a compiled instruction.                       *)
(***************************************************************************)
Fetch(t, a) ==
  /\ pc[t] = "idle"
  /\ cache[a] # "none"
  /\ a \in guest[t]
  /\ cur' = [cur EXCEPT ![t] = a]
  /\ pc' = [pc EXCEPT ![t] = FirstSite(a)]
  /\ UNCHANGED <<Trigger, targetThreadId, optVars, imgVars, cache, tritonInst, mem,
                 snapVars, ctxVars, lock, ret, inVars, exited, events, matchPresented, hookFired, capt,
                 cap, log>>

(***************************************************************************)
(* toggleWrapper, inserted at the entry (true) and at the exit (false) of  *)
(* the routine named by the configured symbol.                             *)
(***************************************************************************)
RTN_Toggle(t) ==
  /\ pc[t] = "toggle"
  /\ lock = 0
  /\ Trigger' = toggleWrapper(RtnHead(cur[t]))
  /\ Goto(t, NextSite(cur[t], "toggle"))
  /\ UNCHANGED <<targetThreadId, optVars, imgVars, cache, tritonInst, mem, snapVars,
                 ctxVars, lock, cur, ret, inVars, exited, events, matchPresented, hookFired, capt, cap, log>>

(***************************************************************************)
(* saveMemoryAccess: the next memory operand of the instruction is read    *)
(* from guest memory and attached to the Instruction.  No lock is taken    *)
(* and neither the Trigger nor the thread is looked at.                    *)
(***************************************************************************)
getCurrentMemoryValue(c) == mem[c]

\* Instruction::updateContext(MemoryOperand): the value is attached under its address
updateContext(inst, c, v, by) ==
  [inst EXCEPT !.ma = [x \in (DOMAIN inst.ma) \cup {c} |->
                          IF x = c THEN [val |-> v, by |-> by] ELSE inst.ma[x]]]

saveMemoryAccess(t) ==
  /\ pc[t] = "sma"
  /\ LET a == cur[t]
         k == Len(cap[t]) + 1
         c == Captures(a)[k]
         v == getCurrentMemoryValue(c.addr)
     IN /\ tritonInst' = [tritonInst EXCEPT
                            ![a] = updateContext(@, c.addr, v, t)]
        /\ cap' = [cap EXCEPT ![t] = Append(@, [kind |-> c.kind, addr |-> c.addr, val |-> v])]
        /\ IF k = Len(Captures(a))
             THEN Goto(t, NextSite(a, "sma"))
             ELSE UNCHANGED pc
  /\ UNCHANGED <<Trigger, targetThreadId, optVars, imgVars, cache, mem, snapVars, ctxVars,
                 lock, cur, ret, inVars, exited, events, matchPresented, hookFired, capt, log>>

(***************************************************************************)
(* The Snapshot engine and the context override, as the callbacks use      *)
(* them.  They work on a record s of the state a callback body changes:    *)
(* snap (the Snapshot), mx (mustBeExecuted), mem, inst (the Instruction    *)
(* at hand), log, and the history sm (snapMem), ur (unrec), wr (written),  *)
(* op (open), cp (capt).                                                   *)
(***************************************************************************)
\* Snapshot::takeSnapshot: the recorded bytes are dropped, the engine is unlocked
takeSnapshot(s) ==
  [s EXCEPT !.snap = [@ EXCEPT !.locked = FALSE, !.memory = NoAccess],
            !.sm = s.mem, !.ur = {}, !.wr = [c \in Cell |-> 0], !.op = TRUE,
            !.cp = [t \in Thread |-> "no"]]

\* addModification without its test of the lock flag
addModification_Unlocked(snap, c, byte) ==
  IF c \notin DOMAIN snap.memory
    THEN [snap EXCEPT !.memory = [x \in (DOMAIN snap.memory) \cup {c} |->
                                     IF x = c THEN byte ELSE snap.memory[x]]]
    ELSE snap

\* Snapshot::addModification: the first byte recorded for an address is kept
addModification(snap, c, byte) ==
  IF ~snap.locked /\ c \notin DOMAIN snap.memory
    THEN [snap EXCEPT !.memory = [x \in (DOMAIN snap.memory) \cup {c} |->
                                     IF x = c THEN byte ELSE snap.memory[x]]]
    ELSE snap

\* Snapshot::restoreSnapshot: every recorded byte is written back, the recorded
\* bytes and the restore request are dropped, the lock flag is left alone
restoreSnapshot(s) ==
  [s EXCEPT !.mem = [c \in Cell |-> IF c \in DOMAIN s.snap.memory
                                      THEN s.snap.memory[c] ELSE s.mem[c]],
            !.snap = [@ EXCEPT !.memory = NoAccess, !.mustBeRestore = FALSE],
            !.cp = [t \in Thread |-> "no"],
            !.log = Append(@, <<"restoreSnapshot", s.inst.address, s.inst.tid>>)]

\* context::executeContext: the queued context is applied, the request is dropped
executeContext(s) ==
  [s EXCEPT !.mx = FALSE,
            !.log = Append(@, <<"executeContext", s.inst.address, s.inst.tid>>)]

\* a hook is invoked with the Instruction and does what the script asks; what
\* it asks for is noted in the log after the hook's name
Hook(name, e, s) ==
  LET here   == <<s.inst.address, s.inst.tid>>
      called == [s EXCEPT !.log = @ \o << <<name>> \o here >>
                                    \o (IF e = "none" THEN <<>>
                                                      ELSE << <<"ask_" \o e>> \o here >>)] IN
  CASE e = "none"                    -> called
    [] e = "takeSnapshot"            -> takeSnapshot(called)
    [] e = "restoreSnapshot"         -> [called EXCEPT !.snap.mustBeRestore = TRUE]
    [] e = "disableSnapshot"         -> [called EXCEPT !.snap.locked = TRUE, !.op = FALSE]
    [] e = "setCurrentRegisterValue" -> [called EXCEPT !.mx = TRUE]

\* a step of the symbolic engine or a hook that changes none of this state
Step(name, s) == [s EXCEPT !.log = Append(@, <<name, s.inst.address, s.inst.tid>>)]

\* the state a callback body of thread t starts from
Enter(t) == [snap |-> snapshot, mx |-> mustBeExecuted, mem |-> mem,
             inst |-> tritonInst[cur[t]], log |-> log[t],
             sm |-> snapMem, ur |-> unrec, wr |-> written, op |-> open, cp |-> capt]

\* ... and the state it leaves
Leave(t, s, site) ==
  /\ snapshot' = s.snap
  /\ mustBeExecuted' = s.mx
  /\ mem' = s.mem
  /\ tritonInst' = [tritonInst EXCEPT ![cur[t]] = s.inst]
  /\ log' = [log EXCEPT ![t] = s.log]
  /\ snapMem' = s.sm
  /\ unrec' = s.ur
  /\ written' = s.wr
  /\ open' = s.op
  /\ capt' = s.cp
  /\ lastContext' = t
  /\ UNCHANGED lock
  /\ Goto(t, NextSite(cur[t], site))

\* the test every gated callback starts with
Gated(t) == ~Trigger \/ t # targetThreadId

(***************************************************************************)
(* callbackBefore.  The preProcessing hook and the test of the Trigger     *)
(* and of the thread come before the lock is taken.                        *)
(***************************************************************************)
\* callbackBefore with line 183 moved behind the test of 185: a gated-out
\* invocation returns without the preProcessing hook
callbackBefore_Gate_HookBehindGate(t) ==
  /\ pc[t] = "cbB"
  /\ log' = [log EXCEPT ![t] = @ \o (IF Gated(t) THEN <<>>
                                                    ELSE << <<"preProcessing", cur[t], t>> >>)
                                    \o << <<"gateBefore", cur[t], ~Gated(t)>> >>]
  /\ IF Gated(t) THEN Goto(t, NextSite(cur[t], "cbB")) ELSE Goto(t, "cbB_body")
  /\ UNCHANGED <<Trigger, targetThreadId, optVars, imgVars, cache, tritonInst, mem,
                 snapVars, ctxVars, lock, cur, ret, inVars, exited, events, matchPresented, hookFired,
                 capt, cap>>

callbackBefore_Gate(t) ==
  /\ pc[t] = "cbB"
  /\ log' = [log EXCEPT ![t] = @ \o << <<"preProcessing", cur[t], t>>,
                                       <<"gateBefore", cur[t], ~Gated(t)>> >>]
  /\ IF Gated(t) THEN Goto(t, NextSite(cur[t], "cbB")) ELSE Goto(t, "cbB_body")
  /\ UNCHANGED <<Trigger, targetThreadId, optVars, imgVars, cache, tritonInst, mem,
                 snapVars, ctxVars, lock, cur, ret, inVars, exited, events, matchPresented, hookFired,
                 capt, cap>>

\* partialReset, setOpcodes, setAddress, setThreadId, disassembly, setTrust(true)
Disassembled(inst, a, t) == [inst EXCEPT !.address = a, !.tid = t, !.trusted = TRUE]

\* Instruction::reset
Reset(s) == Step("reset", [s EXCEPT !.inst = FreshInst])

\* callbackBefore with lines 224 and 212-215 exchanged and the loop of 242-243
\* left out: semantics are built before the beforeIRProc hook, operands stay trusted
BeforeSequence_SemanticsFirst(t, e1, e2) ==
  LET c0 == Step("recordContext", Enter(t))
      c1 == [c0 EXCEPT !.inst = Disassembled(@, cur[t], t)]
      s0 == Step("buildSemantics", Step("trust", Step("disassembly", Step("setup", c1))))
      s1 == IF s0.mx = FALSE THEN Hook("beforeIRProc", e1, s0)
                             ELSE [s0 EXCEPT !.mx = FALSE]
      s2 == IF s1.mx = TRUE THEN executeContext(Reset(s1))
                            ELSE s1
      s4 == IF s2.mx = FALSE THEN Hook("before", e2, s2) ELSE s2
      s5 == IF s4.snap.mustBeRestore
              THEN restoreSnapshot(Reset(s4))
              ELSE s4
  IN Step("postProcessing", s5)

\* callbackBefore with 231-234 moved after 237 and line 232 left out: the restore
\* follows postProcessing and the Instruction is not reset for it
BeforeSequence_RestoreLast(t, e1, e2) ==
  LET c0 == Step("recordContext", Enter(t))
      c1 == [c0 EXCEPT !.inst = Disassembled(@, cur[t], t)]
      s0 == Step("trust", Step("disassembly", Step("setup", c1)))
      s1 == IF s0.mx = FALSE THEN Hook("beforeIRProc", e1, s0)
                             ELSE [s0 EXCEPT !.mx = FALSE]
      s2 == IF s1.mx = TRUE THEN executeContext(Reset(s1))
                            ELSE s1
      s3 == Step("buildSemantics", s2)
      s4 == IF s3.mx = FALSE THEN Hook("before", e2, s3) ELSE s3
      s5 == Step("postProcessing", s4)
      s6 == IF s5.snap.mustBeRestore THEN restoreSnapshot(s5) ELSE s5
  IN Step("untrust", [s6 EXCEPT !.inst.trusted = FALSE])

BeforeSequence(t, e1, e2) ==
  LET c0 == Step("recordContext", Enter(t))
      c1 == [c0 EXCEPT !.inst = Disassembled(@, cur[t], t)]
      s0 == Step("trust", Step("disassembly", Step("setup", c1)))
      s1 == IF s0.mx = FALSE THEN Hook("beforeIRProc", e1, s0)
                             ELSE [s0 EXCEPT !.mx = FALSE]
      s2 == IF s1.mx = TRUE THEN executeContext(Reset(s1))
                            ELSE s1
      s3 == Step("buildSemantics", s2)
      s4 == IF s3.mx = FALSE THEN Hook("before", e2, s3) ELSE s3
      s5 == IF s4.snap.mustBeRestore
              THEN restoreSnapshot(Reset(s4))
              ELSE s4
      s6 == Step("postProcessing", s5)
  IN Step("untrust", [s6 EXCEPT !.inst.trusted = FALSE])

callbackBefore_Body(t) ==
  /\ pc[t] = "cbB_body"
  /\ lock = 0
  /\ \E e1 \in script, e2 \in script :
       LET s == BeforeSequence(t, e1, e2) IN
         /\ Leave(t, s, "cbB")
         /\ hookFired' = (hookFired \/ \E i \in 1..Len(s.log) : s.log[i][1] = "before")
  /\ UNCHANGED <<Trigger, targetThreadId, optVars, imgVars, cache, cur, ret, inVars, exited, events,
                 matchPresented, cap>>

(***************************************************************************)
(* callbackAfter.                                                          *)
(***************************************************************************)
callbackAfter_Gate(t) ==
  /\ pc[t] = "cbA"
  /\ log' = [log EXCEPT ![t] = Append(@, <<"gateAfter", cur[t], ~Gated(t)>>)]
  /\ IF Gated(t) THEN Goto(t, NextSite(cur[t], "cbA")) ELSE Goto(t, "cbA_body")
  /\ UNCHANGED <<Trigger, targetThreadId, optVars, imgVars, cache, tritonInst, mem,
                 snapVars, ctxVars, lock, cur, ret, inVars, exited, events, matchPresented, hookFired,
                 capt, cap>>

\* callbackAfter with 275-276 moved before 262 and 271-272 left out: the restore
\* is looked at before the after hook runs, a queued override stays pending
AfterSequence_RestoreFirst(t, e) ==
  LET s0 == Step("recordContext", Enter(t))
      s1 == IF s0.snap.mustBeRestore THEN restoreSnapshot(s0) ELSE s0
      s2 == Hook("after", e, s1)
      s3 == Step("postProcessing", s2)
  IN Reset(s3)

AfterSequence(t, e) ==
  LET s1 == Hook("after", e, Step("recordContext", Enter(t)))
      s2 == Step("postProcessing", s1)
      s3 == Reset(s2)
      s4 == IF s3.mx = TRUE THEN executeContext(s3) ELSE s3
  IN IF s4.snap.mustBeRestore THEN restoreSnapshot(s4) ELSE s4

callbackAfter_Body(t) ==
  /\ pc[t] = "cbA_body"
  /\ lock = 0
  /\ \E e \in script :
       Leave(t, AfterSequence(t, e), "cbA")
  /\ hookFired' = TRUE
  /\ UNCHANGED <<Trigger, targetThreadId, optVars, imgVars, cache, cur, ret, inVars, exited, events,
                 matchPresented, cap>>

(***************************************************************************)
(* callbackSnapshot, inserted before an instruction of more than one       *)
(* operand whose memory operand 0 is written.  The Trigger and the lock    *)
(* flag of the Snapshot are tested before the lock is taken.               *)
(***************************************************************************)
callbackSnapshot_Gate(t) ==
  /\ pc[t] = "cs"
  /\ IF ~Trigger \/ snapshot.locked
       THEN Goto(t, NextSite(cur[t], "cs"))
       ELSE Goto(t, "cs_body")
  /\ UNCHANGED <<Trigger, targetThreadId, optVars, imgVars, cache, tritonInst, mem,
                 snapVars, ctxVars, lock, cur, ret, inVars, exited, events, matchPresented, hookFired,
                 capt, cap, log>>

\* the byte as the instruction is about to leave it
SnapshotByte_AfterWrite(c) == (mem[c] + 1) % (MaxByte + 1)

\* the byte callbackSnapshot hands to addModification for an address
SnapshotByte(c) == mem[c]

RECURSIVE AddModifications(_, _)
AddModifications(snap, cells) ==
  IF cells = {} THEN snap
  ELSE LET c == CHOOSE x \in cells : \A y \in cells : x <= y IN
         AddModifications(addModification(snap, c, SnapshotByte(c)), cells \ {c})

callbackSnapshot_Body(t) ==
  /\ pc[t] = "cs_body"
  /\ lock = 0
  /\ snapshot' = AddModifications(snapshot, Written(cur[t]))
  /\ capt' = [capt EXCEPT ![t] = IF snapshot.locked THEN "rejected" ELSE "yes"]
  /\ Goto(t, NextSite(cur[t], "cs"))
  /\ UNCHANGED <<Trigger, targetThreadId, optVars, imgVars, cache, tritonInst, mem,
                 snapMem, unrec, written, open, ctxVars, lock, cur, ret, inVars, exited, events,
                 matchPresented, hookFired, cap, log>>

(***************************************************************************)
(* callbackSyscallEntry and callbackSyscallExit, which Pin calls around    *)
(* every system call.                                                      *)
(***************************************************************************)
callbackSyscall_Gate(t, site) ==
  /\ pc[t] = site
  /\ IF Gated(t) THEN Goto(t, NextSite(cur[t], site)) ELSE Goto(t, site \o "_body")
  /\ UNCHANGED <<Trigger, targetThreadId, optVars, imgVars, cache, tritonInst, mem,
                 snapVars, ctxVars, lock, cur, ret, inVars, exited, events, matchPresented, hookFired,
                 capt, cap, log>>

callbackSyscall_Body(t, site) ==
  /\ pc[t] = site \o "_body"
  /\ lock = 0
  /\ lastContext' = t
  /\ log' = [log EXCEPT ![t] = Append(@, <<IF site = "sysE" THEN "syscallEntry"
                                                           ELSE "syscallExit", cur[t], t>>)]
  /\ Goto(t, NextSite(cur[t], site))
  /\ UNCHANGED <<Trigger, targetThreadId, optVars, imgVars, cache, tritonInst, mem,
                 snapVars, mustBeExecuted, lock, cur, ret, inVars, exited, events, matchPresented, hookFired,
                 capt, cap>>

(***************************************************************************)
(* The instruction itself: it adds one to every byte it writes.            *)
(***************************************************************************)
Effect(t) ==
  /\ pc[t] = "effect"
  /\ LET W == Written(cur[t]) IN
       /\ mem' = [c \in Cell |-> IF c \in W THEN (mem[c] + 1) % (MaxByte + 1) ELSE mem[c]]
       /\ unrec' = IF capt[t] = "yes" THEN unrec ELSE unrec \cup W
       /\ written' = [c \in Cell |-> IF c \in W /\ written[c] < 2 THEN written[c] + 1
                                                                ELSE written[c]]
  /\ log' = [log EXCEPT ![t] = Append(@, <<"effect", cur[t], t>>)]
  /\ Goto(t, NextSite(cur[t], "effect"))
  /\ UNCHANGED <<Trigger, targetThreadId, optVars, imgVars, cache, tritonInst, snapshot,
                 snapMem, open, ctxVars, lock, cur, ret, inVars, exited, events, matchPresented, hookFired,
                 capt, cap>>

\* the instruction is over, the thread is ready for the next one
Retire(t) ==
  /\ pc[t] = "fin"
  /\ pc' = [pc EXCEPT ![t] = "idle"]
  /\ cur' = [cur EXCEPT ![t] = 0]
  /\ capt' = [capt EXCEPT ![t] = "no"]
  /\ cap' = [cap EXCEPT ![t] = <<>>]
  /\ log' = [log EXCEPT ![t] = <<>>]
  /\ UNCHANGED <<Trigger, targetThreadId, optVars, imgVars, cache, tritonInst, mem,
                 snapVars, ctxVars, lock, ret, inVars, exited, events, matchPresented, hookFired>>

(***************************************************************************)
(* callbackSignals: Pin hands an intercepted signal of thread t to the     *)
(* pintool.  The context is recorded and the signals hook invoked under    *)
(* the lock, then the process exits.                                       *)
(***************************************************************************)
callbackSignals(t) ==
  /\ ~exited
  /\ lock = 0
  /\ \E e \in script :
       LET s0 == [snap |-> snapshot, mx |-> mustBeExecuted, mem |-> mem,
                  inst |-> [FreshInst EXCEPT !.tid = t], log |-> log[t],
                  sm |-> snapMem, ur |-> unrec, wr |-> written, op |-> open, cp |-> capt]
           s  == Hook("signals", e, s0)
       IN /\ snapshot' = s.snap
          /\ mustBeExecuted' = s.mx
          /\ mem' = s.mem
          /\ log' = [log EXCEPT ![t] = s.log]
          /\ snapMem' = s.sm
          /\ unrec' = s.ur
          /\ written' = s.wr
          /\ open' = s.op
          /\ capt' = s.cp
  /\ lastContext' = t
  /\ events' = Append(events, <<"signals", "", t>>)
  /\ exited' = TRUE
  /\ pc' = [u \in Thread |-> "exit"]
  /\ UNCHANGED <<Trigger, targetThreadId, optVars, imgVars, cache, tritonInst, lock, cur,
                 ret, inVars, matchPresented, hookFired, cap>>

Next ==
  \/ \E img \in Image : IMG_Instrumentation(img)
  \/ \E t \in Thread, a \in Addr : TRACE_Check(t, a)
  \/ \E t \in Thread : TRACE_Insert(t)
  \/ \E t \in Thread, a \in Addr : Fetch(t, a)
  \/ \E t \in Thread : RTN_Toggle(t)
  \/ \E t \in Thread : saveMemoryAccess(t)
  \/ \E t \in Thread : callbackBefore_Gate(t)
  \/ \E t \in Thread : callbackBefore_Body(t)
  \/ \E t \in Thread : callbackSnapshot_Gate(t)
  \/ \E t \in Thread : callbackSnapshot_Body(t)
  \/ \E t \in Thread, site \in {"sysE", "sysX"} : callbackSyscall_Gate(t, site)
  \/ \E t \in Thread, site \in {"sysE", "sysX"} : callbackSyscall_Body(t, site)
  \/ \E t \in Thread : Effect(t)
  \/ \E t \in Thread : callbackAfter_Gate(t)
  \/ \E t \in Thread : callbackAfter_Body(t)
  \/ \E t \in Thread : Retire(t)
  \/ \E t \in Thread : callbackSignals(t)

Spec == Init /\ [][Next]_vars

(***************************************************************************)
(* Runs of the gate: a script that sets no image list and whose hooks ask  *)
(* for nothing, in a process that loads the image app, where every thread  *)
(* runs the routine f, bracketed by toggleWrapper when f is the start      *)
(* symbol.                                                                 *)
(***************************************************************************)
InitGate ==
  /\ Boot
  /\ startAnalysisFromSymbol \in SymbolChoices
  /\ startAnalysisFromAddr \in AddrChoices
  /\ startAnalysisFromOffset \in OffsetChoices
  /\ startAnalysisFromEntry = FALSE
  /\ imageBlacklist = {}
  /\ imageWhitelist = {}
  /\ script = {"none"}
  /\ guest = [t \in Thread |-> {1, 2}]
  /\ images = {"app"}

NextGate ==
  \/ \E img \in Image : IMG_Instrumentation(img)
  \/ \E t \in Thread, a \in Addr : TRACE_Check(t, a)
  \/ \E t \in Thread : TRACE_Insert(t)
  \/ \E t \in Thread, a \in Addr : Fetch(t, a)
  \/ \E t \in Thread : RTN_Toggle(t)
  \/ \E t \in Thread : saveMemoryAccess(t)
  \/ \E t \in Thread : callbackBefore_Gate(t)
  \/ \E t \in Thread : callbackBefore_Body(t)
  \/ \E t \in Thread : Effect(t)
  \/ \E t \in Thread : callbackAfter_Gate(t)
  \/ \E t \in Thread : callbackAfter_Body(t)
  \/ \E t \in Thread : Retire(t)

SpecGate == InitGate /\ [][NextGate]_vars

(***************************************************************************)
(* C1  Trigger gating: as long as no address satisfying a configured start *)
(* condition (symbol, address set, offset set) has been given to           *)
(* checkUnlockAnalysis, the Trigger is false and no before or after hook   *)
(* has been invoked.                                                       *)
(***************************************************************************)
C1_TriggerGating == ~matchPresented => (Trigger = FALSE /\ ~hookFired)

\* addresses were given to checkUnlockAnalysis, none of them matching, and a
\* thread has executed an instruction to its end
C1_Witness ==
  /\ ~matchPresented
  /\ \E a \in Addr : cache[a] # "none"
  /\ \E t \in Thread : pc[t] = "fin"

(***************************************************************************)
(* C2  Trigger invariant under concurrency: the body of a gated callback   *)
(* (context recording, disassembly, semantics, hooks) runs only in states  *)
(* where the Trigger is true.                                              *)
(***************************************************************************)
BodyPcs == {"cbB_body", "cbA_body", "sysE_body", "sysX_body"}

C2_WorkOnlyWhileTriggered ==
  [][\A t \in Thread : (pc[t] \in BodyPcs /\ pc'[t] # pc[t]) => Trigger]_vars

(***************************************************************************)
(* C9  Before/after pairing: an execution of an instrumented instruction   *)
(* that is no system call, with no context override and no restore, whose  *)
(* two gates found the Trigger true and the thread to be the target,       *)
(* invokes the before hook once, then takes effect, then invokes the after *)
(* hook once, both with the address and the thread of the execution; and   *)
(* no execution invokes the after hook without having invoked the before   *)
(* hook.                                                                   *)
(***************************************************************************)
IsHookOrEffect(e) == e[1] \in {"before", "effect", "after"}
HooksOf(t) == SelectSeq(log[t], IsHookOrEffect)
Has(t, name) == \E i \in 1..Len(log[t]) : log[t][i][1] = name
PassedBothGates(t) ==
  /\ \E i \in 1..Len(log[t]) : log[t][i][1] = "gateBefore" /\ log[t][i][3]
  /\ \E i \in 1..Len(log[t]) : log[t][i][1] = "gateAfter" /\ log[t][i][3]
Paired(t) == << <<"before", cur[t], t>>, <<"effect", cur[t], t>>, <<"after", cur[t], t>> >>

C9_Pairing ==
  \A t \in Thread :
    (/\ pc[t] = "fin"
     /\ cache[cur[t]] = "inst"
     /\ ~Program[cur[t]].syscall
     /\ ~Has(t, "executeContext")
     /\ ~Has(t, "restoreSnapshot"))
    => /\ PassedBothGates(t) => HooksOf(t) = Paired(t)
       /\ Has(t, "after") => Has(t, "before")

(***************************************************************************)
(* Runs of the unlock check: every combination of start conditions, in a   *)
(* process that loads both images and blacklists the image app, so that    *)
(* the routine f the threads run is compiled without analysis calls.       *)
(***************************************************************************)
InitUnlock ==
  /\ Boot
  /\ startAnalysisFromSymbol \in SymbolChoices
  /\ startAnalysisFromAddr \in AddrChoices
  /\ startAnalysisFromOffset \in OffsetChoices
  /\ startAnalysisFromEntry \in BOOLEAN
  /\ imageBlacklist = {<<"p">>}
  /\ imageWhitelist = {}
  /\ script = {"none"}
  /\ guest = [t \in Thread |-> {1, 2, 4}]
  /\ images = Image

NextUnlock ==
  \/ \E img \in Image : IMG_Instrumentation(img)
  \/ \E t \in Thread, a \in Addr : TRACE_Check(t, a)
  \/ \E t \in Thread : TRACE_Insert(t)
  \/ \E t \in Thread, a \in Addr : Fetch(t, a)
  \/ \E t \in Thread : RTN_Toggle(t)
  \/ \E t \in Thread : Effect(t)
  \/ \E t \in Thread : Retire(t)

SpecUnlock == InitUnlock /\ [][NextUnlock]_vars

\* the step in which thread t calls checkUnlockAnalysis
Checks(t) == pc[t] = "idle" /\ pc'[t] = "jit"

(***************************************************************************)
(* C3  One-shot unlock: a call of checkUnlockAnalysis made while           *)
(* TargetThread is set returns false and leaves TargetThread and the       *)
(* Trigger as they were, whatever the address.                             *)
(***************************************************************************)
C3_OneShot ==
  [][\A t \in Thread :
       (Checks(t) /\ targetThreadId # Unset)
       => (ret'[t] = FALSE /\ targetThreadId' = targetThreadId /\ Trigger' = Trigger)]_vars

\* checkUnlockAnalysis has just returned to a thread that gave it a matching
\* address, while another thread was the target and the Trigger was off
C3_Witness ==
  \E t \in Thread :
    /\ pc[t] = "jit"
    /\ SatisfiesRange(cur[t])
    /\ targetThreadId \notin {Unset, t}
    /\ ~Trigger

(***************************************************************************)
(* C4  TargetThread is assigned at most once: once set, it keeps its value *)
(* in every step of every thread.                                          *)
(***************************************************************************)
C4_AssignedOnce ==
  [][targetThreadId # Unset => targetThreadId' = targetThreadId]_vars

\* a second thread has given a matching address to checkUnlockAnalysis after
\* the first one became the target
C4_Witness ==
  \E t \in Thread :
    /\ pc[t] = "jit"
    /\ SatisfiesRange(cur[t])
    /\ targetThreadId \notin {Unset, t}

(***************************************************************************)
(* C5  Unlock condition: called with TargetThread unset, checkUnlock-      *)
(* Analysis makes the caller the target, sets the Trigger and returns true *)
(* if and only if the address satisfies a configured condition (symbol,    *)
(* address set, offset set); otherwise it changes nothing and returns      *)
(* false.                                                                  *)
(***************************************************************************)
C5_UnlockIff ==
  [][\A t \in Thread :
       (Checks(t) /\ targetThreadId = Unset)
       => IF SatisfiesRange(cur'[t])
            THEN ret'[t] = TRUE /\ targetThreadId' = t /\ Trigger' = TRUE
            ELSE ret'[t] = FALSE /\ targetThreadId' = Unset /\ Trigger' = Trigger]_vars

(***************************************************************************)
(* Runs of the snapshot engine: the analysis starts at the instruction     *)
(* add [c1], r of routine g, thread 1 runs g, and the hooks of the script  *)
(* take, disable and restore snapshots as they like.                       *)
(***************************************************************************)
InitSnap ==
  /\ Boot
  /\ startAnalysisFromSymbol = nullptr
  /\ startAnalysisFromAddr = {3}
  /\ startAnalysisFromOffset = {}
  /\ startAnalysisFromEntry = FALSE
  /\ imageBlacklist = {}
  /\ imageWhitelist = {}
  /\ script = {"none", "takeSnapshot", "restoreSnapshot", "disableSnapshot"}
  /\ guest = [t \in Thread |-> IF t = 1 THEN {3, 4} ELSE {}]
  /\ images = {"app"}

NextSnap ==
  \/ \E img \in Image : IMG_Instrumentation(img)
  \/ \E t \in Thread, a \in Addr : TRACE_Check(t, a)
  \/ \E t \in Thread : TRACE_Insert(t)
  \/ \E t \in Thread, a \in Addr : Fetch(t, a)
  \/ \E t \in Thread : saveMemoryAccess(t)
  \/ \E t \in Thread : callbackBefore_Gate(t)
  \/ \E t \in Thread : callbackBefore_Body(t)
  \/ \E t \in Thread : callbackSnapshot_Gate(t)
  \/ \E t \in Thread : callbackSnapshot_Body(t)
  \/ \E t \in Thread : Effect(t)
  \/ \E t \in Thread : callbackAfter_Gate(t)
  \/ \E t \in Thread : callbackAfter_Body(t)
  \/ \E t \in Thread : Retire(t)

SpecSnap == InitSnap /\ [][NextSnap]_vars

\* the step in which a callback of thread t restores the snapshot
IsRestore(e) == e[1] = "restoreSnapshot"
Restores(t) == Len(SelectSeq(log'[t], IsRestore)) > Len(SelectSeq(log[t], IsRestore))

(***************************************************************************)
(* C6  Snapshot round trip: when a restore follows a snapshot that was     *)
(* taken and left unlocked, and the guest instructions executed in between *)
(* wrote every address at most once, the restore leaves every byte of      *)
(* memory equal to its value when the snapshot was taken, and the map of   *)
(* recorded modifications empty.                                           *)
(***************************************************************************)
C6_RoundTrip ==
  [][((\E t \in Thread : Restores(t)) /\ open' /\ \A c \in Cell : written'[c] <= 1)
     => (mem' = snapMem' /\ snapshot'.memory = NoAccess)]_vars

(***************************************************************************)
(* C7  First-write-wins: no step replaces the byte recorded for an         *)
(* address, however often the address is written; so for an address whose  *)
(* writes since the snapshot were each preceded by their capture, the      *)
(* recorded byte is the value the address had when the snapshot was taken, *)
(* and once the recorded bytes have been written back the address holds    *)
(* that value.                                                             *)
(***************************************************************************)
RecordedIsSnapshot ==
  \A c \in Cell \ unrec :
    IF c \in DOMAIN snapshot.memory
      THEN snapshot.memory[c] = snapMem[c]
      ELSE mem[c] = snapMem[c]

InitSnapLock ==
  /\ Boot
  /\ startAnalysisFromSymbol = nullptr
  /\ startAnalysisFromAddr = {1}
  /\ startAnalysisFromOffset = {}
  /\ startAnalysisFromEntry = FALSE
  /\ imageBlacklist = {}
  /\ imageWhitelist = {}
  /\ script = {"none", "takeSnapshot", "disableSnapshot"}
  /\ guest = [t \in Thread |-> IF t = 1 THEN {1} ELSE {3}]
  /\ images = {"app"}

SpecSnapLock == InitSnapLock /\ [][NextSnap]_vars

(***************************************************************************)
(* C8  Snapshot lock invariant: no step taken while the Snapshot is locked *)
(* adds an entry to the map of recorded modifications.                     *)
(***************************************************************************)
C8_LockedRecordsNothing ==
  [][snapshot.locked => (DOMAIN snapshot'.memory \subseteq DOMAIN snapshot.memory)]_vars

\* callbackSnapshot found the Snapshot unlocked, a hook locked it, and the calls
\* of addModification made under the lock were turned down
C8_Witness == \E t \in Thread : capt[t] = "rejected"

(***************************************************************************)
(* Runs of the memory capture: the analysis starts at add [c1], r; thread  *)
(* 1 runs the routine g and cmps of the routine h, the other threads run   *)
(* cmps, which writes no memory; the hooks of the script ask for nothing.  *)
(***************************************************************************)
InitCapture ==
  /\ Boot
  /\ startAnalysisFromSymbol = nullptr
  /\ startAnalysisFromAddr = {3}
  /\ startAnalysisFromOffset = {}
  /\ startAnalysisFromEntry = FALSE
  /\ imageBlacklist = {}
  /\ imageWhitelist = {}
  /\ script = {"none"}
  /\ guest = [t \in Thread |-> IF t = 1 THEN {3, 4, 5} ELSE {5}]
  /\ images = Image

NextCapture ==
  \/ \E img \in Image : IMG_Instrumentation(img)
  \/ \E t \in Thread, a \in Addr : TRACE_Check(t, a)
  \/ \E t \in Thread : TRACE_Insert(t)
  \/ \E t \in Thread, a \in Addr : Fetch(t, a)
  \/ \E t \in Thread : saveMemoryAccess(t)
  \/ \E t \in Thread : callbackBefore_Gate(t)
  \/ \E t \in Thread : callbackBefore_Body(t)
  \/ \E t \in Thread : callbackSnapshot_Gate(t)
  \/ \E t \in Thread : Effect(t)
  \/ \E t \in Thread : callbackAfter_Gate(t)
  \/ \E t \in Thread : callbackAfter_Body(t)
  \/ \E t \in Thread : Retire(t)

SpecCapture == InitCapture /\ [][NextCapture]_vars

\* the memory operands Pin reports for the instruction
MemoryOperands(a) ==
  (IF Program[a].read1 # 0 THEN 1 ELSE 0) + (IF Program[a].read2 # 0 THEN 1 ELSE 0)
  + (IF Program[a].write # 0 THEN 1 ELSE 0)

(***************************************************************************)
(* C10  Read-before-write capture: in every execution of an instrumented   *)
(* instruction no value of a read operand is attached after the value of   *)
(* the write operand; once the before-sequence has begun or the            *)
(* instruction has taken effect the values of all its memory operands are  *)
(* attached; and after the instruction has written a location, the values  *)
(* attached for that location, read or written, are the one it held before *)
(* that write.                                                             *)
(***************************************************************************)
C10_ReadBeforeWrite ==
  \A t \in Thread :
    (cur[t] # 0 /\ pc[t] # "jit" /\ cache[cur[t]] = "inst")
    => LET a == cur[t] IN
         /\ \A i, j \in 1..Len(cap[t]) :
              (i < j /\ cap[t][i].kind = "W") => cap[t][j].kind \notin {"R1", "R2"}
         /\ (log[t] # <<>>) => Len(cap[t]) = MemoryOperands(a)
         /\ Has(t, "effect")
            => \A i \in 1..Len(cap[t]) :
                 cap[t][i].addr \in Written(a)
                 => mem[cap[t][i].addr] = (cap[t][i].val + 1) % (MaxByte + 1)

\* add [c1], r has run to its end with both captures of c1 made and its before
\* hook invoked
C10_Witness ==
  \E t \in Thread :
    /\ pc[t] = "fin"
    /\ cur[t] = 3
    /\ Len(cap[t]) = 2
    /\ Has(t, "before")

(***************************************************************************)
(* Runs of the image filter: the analysis starts at offset 1 of either     *)
(* image, under every pair of image lists below; thread 1 runs             *)
(* instructions of both images, the other threads the system call of lib.  *)
(***************************************************************************)
FilterChoices ==
  ListChoices \cup { [black |-> {}, white |-> {<<"a", "p">>}],
                     [black |-> {<<"i", "b">>}, white |-> {<<"l">>, <<"a">>}] }

InitFilter ==
  /\ Boot
  /\ startAnalysisFromSymbol = nullptr
  /\ startAnalysisFromAddr = {}
  /\ startAnalysisFromOffset = {1}
  /\ startAnalysisFromEntry = FALSE
  /\ \E l \in FilterChoices : imageBlacklist = l.black /\ imageWhitelist = l.white
  /\ script = {"none"}
  /\ guest = [t \in Thread |-> IF t = 1 THEN {1, 5, 6} ELSE {6}]
  /\ images = Image

NextFilter ==
  \/ \E img \in Image : IMG_Instrumentation(img)
  \/ \E t \in Thread, a \in Addr : TRACE_Check(t, a)
  \/ \E t \in Thread : TRACE_Insert(t)
  \/ \E t \in Thread, a \in Addr : Fetch(t, a)
  \/ \E t \in Thread : saveMemoryAccess(t)
  \/ \E t \in Thread : callbackBefore_Gate(t)
  \/ \E t \in Thread : callbackBefore_Body(t)
  \/ \E t \in Thread, site \in {"sysE", "sysX"} : callbackSyscall_Gate(t, site)
  \/ \E t \in Thread, site \in {"sysE", "sysX"} : callbackSyscall_Body(t, site)
  \/ \E t \in Thread : Effect(t)
  \/ \E t \in Thread : callbackAfter_Gate(t)
  \/ \E t \in Thread : callbackAfter_Body(t)
  \/ \E t \in Thread : Retire(t)

SpecFilter == InitFilter /\ [][NextFilter]_vars

\* the substring occurs in the path
Contains(path, sub) ==
  \E i \in 1..Len(path) :
    /\ i + Len(sub) - 1 <= Len(path)
    /\ SubSeq(path, i, i + Len(sub) - 1) = sub

\* the path matches no blacklist substring and, when there is a whitelist, one
\* of its substrings
PassesLists(path) ==
  /\ \A b \in imageBlacklist : ~Contains(path, b)
  /\ imageWhitelist = {} \/ \E w \in imageWhitelist : Contains(path, w)

(***************************************************************************)
(* C11  Image filter: the instruction TRACE_Instrumentation has just       *)
(* handled got its analysis calls exactly if the Trigger was on and the    *)
(* path of the image owning it matches no blacklist substring and, with a  *)
(* non-empty whitelist, at least one whitelist substring.                  *)
(***************************************************************************)
C11_ImageFilter ==
  [][\A t \in Thread :
       (pc[t] = "jit" /\ pc'[t] = "idle")
       => ((cache'[cur[t]] = "inst")
           <=> (Trigger /\ PassesLists(IMG_Name(Program[cur[t]].img))))]_vars

\* with the Trigger on, an instruction whose image path matches a substring of
\* both lists was left without analysis calls
C11_Witness ==
  \E a \in Addr :
    /\ Trigger
    /\ cache[a] = "plain"
    /\ \E b \in imageBlacklist : Contains(IMG_Name(Program[a].img), b)
    /\ \E w \in imageWhitelist : Contains(IMG_Name(Program[a].img), w)

(***************************************************************************)
(* Runs with signals: the analysis starts at the first instruction of f,   *)
(* the threads run f, a signal may arrive in any thread at any moment, and *)
(* the hooks of the script may ask for a restore of the snapshot.          *)
(***************************************************************************)
InitSignal ==
  /\ Boot
  /\ startAnalysisFromSymbol = nullptr
  /\ startAnalysisFromAddr = {1}
  /\ startAnalysisFromOffset = {}
  /\ startAnalysisFromEntry = FALSE
  /\ imageBlacklist = {}
  /\ imageWhitelist = {}
  /\ script = {"none", "restoreSnapshot"}
  /\ guest = [t \in Thread |-> IF t = 1 THEN {1, 2} ELSE {2}]
  /\ images = {"app"}

NextSignal ==
  \/ \E img \in Image : IMG_Instrumentation(img)
  \/ \E t \in Thread, a \in Addr : TRACE_Check(t, a)
  \/ \E t \in Thread : TRACE_Insert(t)
  \/ \E t \in Thread, a \in Addr : Fetch(t, a)
  \/ \E t \in Thread : saveMemoryAccess(t)
  \/ \E t \in Thread : callbackBefore_Gate(t)
  \/ \E t \in Thread : callbackBefore_Body(t)
  \/ \E t \in Thread : Effect(t)
  \/ \E t \in Thread : callbackAfter_Gate(t)
  \/ \E t \in Thread : callbackAfter_Body(t)
  \/ \E t \in Thread : Retire(t)
  \/ \E t \in Thread : callbackSignals(t)

SpecSignal == InitSignal /\ [][NextSignal]_vars

\* the step in which callbackSignals handles a signal of thread t
Signalled(t) ==
  /\ Len(events') = Len(events) + 1
  /\ events'[Len(events')] = <<"signals", "", t>>

(***************************************************************************)
(* C12  Signal handling: whenever a signal is handled, whatever the        *)
(* Trigger and the thread, the signals hook is invoked, and when it has    *)
(* returned the process has exited unless the hook asked for a restore of  *)
(* the snapshot, in which case it has not.                                 *)
(***************************************************************************)
C12_Signals ==
  [][\A t \in Thread :
       Signalled(t)
       => /\ \E i \in (Len(log[t]) + 1)..Len(log'[t]) : log'[t][i] = <<"signals", 0, t>>
          /\ exited' <=> ~(\E i \in (Len(log[t]) + 1)..Len(log'[t]) :
                              log'[t][i] = <<"ask_restoreSnapshot", 0, t>>)]_vars

\* what the step appended to the record of image events
NewEvents == SubSeq(events', Len(events) + 1, Len(events'))

\* the entry registrations made so far (insertions of an image entry address)
Registrations(es) == SelectSeq(es, LAMBDA e : e[1] = "entry")

(***************************************************************************)
(* C13  Image load and entry registration: an image load seen while the    *)
(* from-entry request is set inserts that image's entry address into the   *)
(* start addresses and clears the request; a load seen while it is clear   *)
(* inserts nothing, so at most one entry address is ever inserted, at the  *)
(* first load.  Every image load invokes the imageLoad hook exactly once,  *)
(* after the registration step, whatever Trigger and TargetThread are.     *)
(***************************************************************************)
C13_EntryRegistration ==
  [][\A img \in Image :
       img \in loaded' \ loaded
       => /\ IF startAnalysisFromEntry
               THEN /\ NewEvents = << <<"entry", img, IMG_Entry(img)>>,
                                      <<"imageLoad", img, IMG_LowAddress(img)>> >>
                    /\ startAnalysisFromAddr' = startAnalysisFromAddr \cup {IMG_Entry(img)}
                    /\ loaded = {}
               ELSE /\ NewEvents = << <<"imageLoad", img, IMG_LowAddress(img)>> >>
                    /\ startAnalysisFromAddr' = startAnalysisFromAddr
          /\ ~startAnalysisFromEntry'
          /\ Len(Registrations(events')) <= 1]_vars

\* both images are loaded, the first load registered its entry address, and
\* the second one was seen after the analysis had been unlocked by a thread
C13_Witness ==
  /\ loaded = Image
  /\ Len(events) = 3
  /\ events[1][1] = "entry"
  /\ Trigger
  /\ targetThreadId # Unset
  /\ cache[5] = "none"

\* the state the lock is there to protect
Protected == <<Trigger, targetThreadId, mustBeExecuted, lastContext, snapshot, optVars,
               tritonInst>>

\* thread t takes the step
Moves(t) == pc'[t] # pc[t] \/ cap'[t] # cap[t]

\* thread t holds the client lock throughout the step: Pin took it for the
\* instrumentation of a trace, or the step is a callback body, which begins
\* with PIN_LockClient and ends with PIN_UnlockClient
HoldsLock(t) ==
  \/ lock = t
  \/ lock' = t
  \/ lock = 0 /\ pc[t] \in BodyPcs \cup {"toggle", "cs_body"}

(***************************************************************************)
(* C14  Lock protection: every step that writes the Trigger, TargetThread, *)
(* the ConcreteContext fields, the Snapshot, a start-condition option or   *)
(* an Instruction object is the load of an image, which Pin runs with the  *)
(* lock held, or the step of a thread that holds the lock.                 *)
(***************************************************************************)
C14_LockProtection ==
  [][Protected' # Protected
       => \/ loaded' # loaded
          \/ \E t \in Thread : Moves(t) /\ HoldsLock(t)]_vars

(***************************************************************************)
(* Runs of the instruction pipeline: the analysis starts at add [c1], r;   *)
(* thread 1 runs add [c1], r and the system call of h, the other threads   *)
(* run nothing; the hooks of the script may take a snapshot, lock it, ask  *)
(* for its restore, and queue an override of the context.                  *)
(***************************************************************************)
InitPipeline ==
  /\ Boot
  /\ startAnalysisFromSymbol = nullptr
  /\ startAnalysisFromAddr = {3}
  /\ startAnalysisFromOffset = {}
  /\ startAnalysisFromEntry = FALSE
  /\ imageBlacklist = {}
  /\ imageWhitelist = {}
  /\ script = HookEffects
  /\ guest = [t \in Thread |-> IF t = 1 THEN {3, 6} ELSE {}]
  /\ images = Image

NextPipeline ==
  \/ \E img \in Image : IMG_Instrumentation(img)
  \/ \E t \in Thread, a \in Addr : TRACE_Check(t, a)
  \/ \E t \in Thread : TRACE_Insert(t)
  \/ \E t \in Thread, a \in Addr : Fetch(t, a)
  \/ \E t \in Thread : saveMemoryAccess(t)
  \/ \E t \in Thread : callbackBefore_Gate(t)
  \/ \E t \in Thread : callbackBefore_Body(t)
  \/ \E t \in Thread : callbackSnapshot_Gate(t)
  \/ \E t \in Thread : callbackSnapshot_Body(t)
  \/ \E t \in Thread, site \in {"sysE", "sysX"} : callbackSyscall_Gate(t, site)
  \/ \E t \in Thread, site \in {"sysE", "sysX"} : callbackSyscall_Body(t, site)
  \/ \E t \in Thread : Effect(t)
  \/ \E t \in Thread : callbackAfter_Gate(t)
  \/ \E t \in Thread : callbackAfter_Body(t)
  \/ \E t \in Thread : Retire(t)

SpecPipeline == InitPipeline /\ [][NextPipeline]_vars

\* the steps in which thread t runs the locked part of callbackBefore, of callbackAfter
RunsBefore(t) == pc[t] = "cbB_body" /\ pc'[t] # pc[t]
RunsAfter(t)  == pc[t] = "cbA_body" /\ pc'[t] # pc[t]

\* what the step of thread t did, in order: the names of its log entries
Did(t) == [i \in 1..(Len(log'[t]) - Len(log[t])) |-> log'[t][Len(log[t]) + i][1]]

\* ... without the notes of what the hooks asked for
Requests == {"ask_" \o e : e \in HookEffects}
Calls(t) == SelectSeq(Did(t), LAMBDA n : n \notin Requests)

Occurs(n, seq) == \E i \in 1..Len(seq) : seq[i] = n

(***************************************************************************)
(* C15  Before-sequence ordering: a before-sequence that starts with no    *)
(* override pending and applies neither an override nor a restore does,    *)
(* in one hold of the lock and in this order: record the context, set up   *)
(* the Instruction, disassemble, trust the operands, beforeIRProc hook,    *)
(* build semantics, before hook, postProcessing, untrust the operands.     *)
(* Operands are trusted only inside the sequence: no Instruction is left   *)
(* trusted when the lock is released.                                      *)
(***************************************************************************)
C15_BeforeOrder ==
  [][\A t \in Thread :
       RunsBefore(t)
       => /\ lock = 0 /\ lock' = 0
          /\ (/\ ~mustBeExecuted
              /\ ~Occurs("executeContext", Did(t))
              /\ ~Occurs("restoreSnapshot", Did(t)))
             => Calls(t) = <<"recordContext", "setup", "disassembly", "trust",
                             "beforeIRProc", "buildSemantics", "before",
                             "postProcessing", "untrust">>
          /\ \A a \in Addr : ~tritonInst'[a].trusted]_vars

\* a before-sequence has run to its end with both hooks invoked, applying
\* neither an override nor a restore
C15_Witness ==
  \E t \in Thread :
    /\ pc[t] \in {"cs", "effect", "sysE"}
    /\ \E i \in 1..Len(log[t]) : log[t][i][1] = "untrust"
    /\ \E i \in 1..Len(log[t]) : log[t][i][1] = "before"
    /\ \A i \in 1..Len(log[t]) : log[t][i][1] \notin {"executeContext", "restoreSnapshot"}

\* the beforeIRProc hook of the step asked for an override of the context
AskedByBeforeIR(t) ==
  \E i \in 1..(Len(Did(t)) - 1) :
    Did(t)[i] = "beforeIRProc" /\ Did(t)[i + 1] = "ask_setCurrentRegisterValue"

(***************************************************************************)
(* C16  Override application in the before-sequence: when an override is   *)
(* pending in a before-sequence, because it was pending at its start or    *)
(* because its beforeIRProc hook asked for one, that sequence resets the   *)
(* Instruction and then applies the override with executeContext.          *)
(***************************************************************************)
C16_OverrideApplied ==
  [][\A t \in Thread :
       (RunsBefore(t) /\ (mustBeExecuted \/ AskedByBeforeIR(t)))
       => \E i \in 1..(Len(Did(t)) - 1) :
            Did(t)[i] = "reset" /\ Did(t)[i + 1] = "executeContext"]_vars

(***************************************************************************)
(* C17  Override short-circuits semantics: a before-sequence that applies  *)
(* an override with executeContext does not build the semantics of the     *)
(* instruction.                                                            *)
(***************************************************************************)
C17_NoSemanticsAfterOverride ==
  [][\A t \in Thread :
       (RunsBefore(t) /\ Occurs("executeContext", Did(t)))
       => ~Occurs("buildSemantics", Did(t))]_vars

\* the step of thread t applies a queued override
AppliesOverride(t) == (RunsBefore(t) \/ RunsAfter(t)) /\ Occurs("executeContext", Did(t))

(***************************************************************************)
(* C18  Override skips user hooks: in the execution of an instruction in   *)
(* which the pipeline applies a queued override, neither the before hook   *)
(* nor the after hook is invoked.                                          *)
(***************************************************************************)
C18_NoHooksWithOverride ==
  [][\A t \in Thread :
       AppliesOverride(t)
       => \A i \in 1..Len(log'[t]) : log'[t][i][1] \notin {"before", "after"}]_vars

(***************************************************************************)
(* C19  After-sequence ordering: the after-sequence does, in one hold of   *)
(* the lock and in this order: record the context, after hook,             *)
(* postProcessing, reset of the Instruction, application of the override   *)
(* if one is pending, restore if one is pending.  An override or a restore *)
(* asked for by the after hook, or left pending before it, is consumed     *)
(* there: when the lock is released neither is pending.                    *)
(***************************************************************************)
C19_AfterOrder ==
  [][\A t \in Thread :
       RunsAfter(t)
       => LET asked(n) == Occurs("ask_" \o n, Did(t))
              x == mustBeExecuted \/ asked("setCurrentRegisterValue")
              r == snapshot.mustBeRestore \/ asked("restoreSnapshot")
          IN /\ lock = 0 /\ lock' = 0
             /\ Calls(t) = <<"recordContext", "after", "postProcessing", "reset">>
                           \o (IF x THEN <<"executeContext">> ELSE <<>>)
                           \o (IF r THEN <<"restoreSnapshot">> ELSE <<>>)
             /\ ~mustBeExecuted'
             /\ ~snapshot'.mustBeRestore
             /\ tritonInst'[cur[t]] = FreshInst]_vars

\* an after-sequence has applied an override that was pending when it began
C19_Witness ==
  \E t \in Thread :
    /\ pc[t] = "fin"
    /\ ~mustBeExecuted
    /\ \E i \in 1..Len(log[t]) : log[t][i][1] = "executeContext"
    /\ \E i \in 1..Len(log[t]) : log[t][i][1] = "after"
    /\ \E i \in 1..Len(log[t]) :
         log[t][i][1] = "before" /\ i < Len(log[t])
         /\ log[t][i + 1][1] = "ask_setCurrentRegisterValue"

\* a hook of the step asked for a restore, so that one is pending at the
\* restore check of the sequence
RestorePending(t) == snapshot.mustBeRestore \/ Occurs("ask_restoreSnapshot", Did(t))

\* the bytes recorded when the restore check is reached: a snapshot taken by a
\* hook of the step has dropped those recorded before
RecordedAtCheck(t) ==
  IF Occurs("ask_takeSnapshot", Did(t)) THEN NoAccess ELSE snapshot.memory

\* the lock flag when the restore check is reached: as the last hook that took
\* or locked a snapshot in the step left it
LockedAtCheck(t) ==
  LET set == {i \in 1..Len(Did(t)) : Did(t)[i] \in {"ask_takeSnapshot", "ask_disableSnapshot"}}
  IN IF set = {} THEN snapshot.locked
     ELSE Did(t)[CHOOSE i \in set : \A j \in set : j <= i] = "ask_disableSnapshot"

(***************************************************************************)
(* C20  Restore effect: whenever a restore is pending at the restore check *)
(* of a before-sequence or of an after-sequence, the restore runs in that  *)
(* sequence: every recorded byte is written back to its address, the       *)
(* record is emptied, the must-restore flag is cleared and the lock flag   *)
(* is left as it was.  In the before-sequence the Instruction is reset     *)
(* just before the restore, and postProcessing still runs after it.        *)
(***************************************************************************)
C20_RestoreEffect ==
  [][\A t \in Thread :
       ((RunsBefore(t) \/ RunsAfter(t)) /\ RestorePending(t))
       => /\ Occurs("restoreSnapshot", Calls(t))
          /\ mem' = [c \in Cell |-> IF c \in DOMAIN RecordedAtCheck(t)
                                      THEN RecordedAtCheck(t)[c] ELSE mem[c]]
          /\ snapshot'.memory = NoAccess
          /\ ~snapshot'.mustBeRestore
          /\ snapshot'.locked = LockedAtCheck(t)
          /\ RunsBefore(t)
             => \E i \in 1..(Len(Calls(t)) - 3) :
                  SubSeq(Calls(t), i, i + 3)
                    = <<"reset", "restoreSnapshot", "postProcessing", "untrust">>]_vars

\* a before-sequence has restored a locked snapshot that had recorded a byte:
\* the cell written since the snapshot holds its value of then again
C20_Witness ==
  \E t \in Thread :
    /\ pc[t] \in {"cs", "effect"}
    /\ \E i \in 1..Len(log[t]) : log[t][i][1] = "restoreSnapshot"
    /\ snapshot.locked
    /\ snapshot.memory = NoAccess
    /\ \E c \in Cell : written[c] > 0 /\ mem[c] = snapMem[c]

\* the step in which thread t enters callbackBefore and passes or fails its gate
EntersBefore(t) == pc[t] = "cbB" /\ pc'[t] # pc[t]

(***************************************************************************)
(* C21  Unconditional pre-processing: every invocation of callbackBefore   *)
(* invokes the preProcessing hook exactly once, first, before the test of  *)
(* the Trigger and of the thread, and without taking the lock; the locked  *)
(* part that may follow does not invoke it again.  When the Trigger is     *)
(* false or the thread is not TargetThread the callback invokes no other   *)
(* hook, does not enter its locked part and changes no shared state.       *)
(***************************************************************************)
C21_PreProcessing ==
  [][\A t \in Thread :
       /\ EntersBefore(t)
          => /\ Did(t) = <<"preProcessing", "gateBefore">>
             /\ lock' = lock
             /\ Gated(t) => /\ pc'[t] \notin BodyPcs
                            /\ Protected' = Protected
                            /\ <<mem, snapVars, imgVars, cache>>' = <<mem, snapVars, imgVars, cache>>
       /\ RunsBefore(t) => ~Occurs("preProcessing", Did(t))]_vars

\* a thread that is not TargetThread has gone through callbackBefore of an
\* instrumented instruction, gated out after the preProcessing hook, and the
\* client lock is in the hands of another thread
C21_Witness ==
  \E t \in Thread, u \in Thread :
    /\ t # u
    /\ lock = u
    /\ Trigger
    /\ targetThreadId # t
    /\ Len(log[t]) = 2
    /\ log[t][1] = <<"preProcessing", cur[t], t>>
    /\ log[t][2] = <<"gateBefore", cur[t], FALSE>>

(***************************************************************************)
(* Runs of the snapshot capture around the end of the analysed routine:    *)
(* the analysis is bracketed by the routine f, which thread 1 runs and     *)
(* whose hooks may take a snapshot, while the other threads run            *)
(* add [c1], r, before which callbackSnapshot is inserted.                 *)
(***************************************************************************)
InitSnapGate ==
  /\ Boot
  /\ startAnalysisFromSymbol = "f"
  /\ startAnalysisFromAddr = {}
  /\ startAnalysisFromOffset = {}
  /\ startAnalysisFromEntry = FALSE
  /\ imageBlacklist = {}
  /\ imageWhitelist = {}
  /\ script = {"none", "takeSnapshot"}
  /\ guest = [t \in Thread |-> IF t = 1 THEN {1, 2} ELSE {3}]
  /\ images = {"app"}

NextSnapGate ==
  \/ \E img \in Image : IMG_Instrumentation(img)
  \/ \E t \in Thread, a \in Addr : TRACE_Check(t, a)
  \/ \E t \in Thread : TRACE_Insert(t)
  \/ \E t \in Thread, a \in Addr : Fetch(t, a)
  \/ \E t \in Thread : RTN_Toggle(t)
  \/ \E t \in Thread : saveMemoryAccess(t)
  \/ \E t \in Thread : callbackBefore_Gate(t)
  \/ \E t \in Thread : callbackBefore_Body(t)
  \/ \E t \in Thread : callbackSnapshot_Gate(t)
  \/ \E t \in Thread : callbackSnapshot_Body(t)
  \/ \E t \in Thread : Effect(t)
  \/ \E t \in Thread : callbackAfter_Gate(t)
  \/ \E t \in Thread : callbackAfter_Body(t)
  \/ \E t \in Thread : Retire(t)

SpecSnapGate == InitSnapGate /\ [][NextSnapGate]_vars

\* the steps of callbackSnapshot in thread t: its two tests, its locked loop
TestsSnapshot(t)   == pc[t] = "cs" /\ pc'[t] # pc[t]
RecordsSnapshot(t) == pc[t] = "cs_body" /\ pc'[t] # pc[t]

(***************************************************************************)
(* C22  Snapshot capture gating: callbackSnapshot, in whatever thread it   *)
(* runs, goes on to record when the Trigger is true and the Snapshot is    *)
(* unlocked, and then every byte the instruction is about to write is      *)
(* recorded with the value it holds; and it records nothing when the       *)
(* Trigger is false.                                                       *)
(***************************************************************************)
C22_CaptureGating ==
  [][\A t \in Thread :
       /\ TestsSnapshot(t)
          => /\ (Trigger /\ ~snapshot.locked) => pc'[t] = "cs_body"
             /\ snapshot' = snapshot
       /\ RecordsSnapshot(t)
          => /\ (Trigger /\ ~snapshot.locked)
                => \A c \in Written(cur[t]) :
                     /\ c \in DOMAIN snapshot'.memory
                     /\ c \notin DOMAIN snapshot.memory => snapshot'.memory[c] = mem[c]
             /\ ~Trigger => snapshot' = snapshot]_vars

\* the memory accesses thread t has captured in its current execution of the
\* instruction, as updateContext attaches them: the last value under each address
CapturedBy(t) ==
  LET at(c) == {i \in 1..Len(cap[t]) : cap[t][i].addr = c}
      last(c) == CHOOSE i \in at(c) : \A j \in at(c) : j <= i
  IN [c \in {cap[t][i].addr : i \in 1..Len(cap[t])} |-> [val |-> cap[t][last(c)].val, by |-> t]]

(***************************************************************************)
(* C23  No stale memory accesses: when the before-sequence of the target   *)
(* thread builds the semantics of an Instruction, the memory accesses      *)
(* attached to it are exactly those that thread captured in its current    *)
(* execution of the instruction: none captured by another thread, or       *)
(* while the Trigger was false, is attached.                               *)
(***************************************************************************)
C23_NoStaleAccess ==
  [][\A t \in Thread :
       (RunsBefore(t) /\ Occurs("buildSemantics", Did(t)))
       => tritonInst[cur[t]].ma = CapturedBy(t)]_vars

====
